---------------------------- MODULE Spec2Model ----------------------------
(***************************************************************************)
(* A model of VariantListComponent (variant-list.component.ts): the        *)
(* faceted filter engine (applyFilters), the facet counters, the           *)
(* visibility reconciler (ensureVariantVisible), the HGVS annotation cache *)
(* (hgvsStates, fetchHgvsAlternatives, the constructor effect) and the     *)
(* report-mark toggle.                                                     *)
(*                                                                         *)
(* A JavaScript string is a sequence of one-character strings, so that     *)
(* toLowerCase, trim, includes, split and Number.toString are computed.    *)
(***************************************************************************)
EXTENDS Integers, Sequences, FiniteSets, Bags, TLC

(***************************************************************************)
(* Bounds of the model.                                                    *)
(***************************************************************************)
\* Most records of a collection the filter engine is run on (Collections).
MaxVariants == 2
\* Most asynchronous service calls (lookup or persist) in flight at once.
MaxInflight == 2

(***************************************************************************)
(* Strings.                                                                *)
(***************************************************************************)
sEmpty == << >>
sAll == <<"A", "l", "l">>
sall == <<"a", "l", "l">>
sNA == <<"N", "/", "A">>
sPASS == <<"P", "A", "S", "S">>
sLOW == <<"L", "O", "W">>
sSNV == <<"S", "N", "V">>
ssnv == <<"s", "n", "v">>
sIndel == <<"I", "n", "d", "e", "l">>
sP1 == <<"P", "1">>
sP2 == <<"P", "2">>
sMis == <<"m", "i", "s">>
sA == <<"A">>
sC == <<"C">>
sG == <<"G">>
sT == <<"T">>
sBlank == <<" ">>
\* HGVS names: transcript-level, protein-level, and one without a colon.
sNMc1 == <<"N", "M", ":", "c", "1">>
sNPp1 == <<"N", "P", ":", "p", "1">>
sNoColon == <<"c", "1">>
\* Search queries.
sQp1 == <<" ", "p", "1">>
sQnp == <<"N", "p", ":">>

\* The value of an absent optional field (JavaScript undefined): no string
\* of the model is this sequence.
undefined == <<"#undefined">>

\* if (x): undefined and the empty string are falsy.
Truthy(s) == s # undefined /\ s # sEmpty

UpperToLower ==
    [c \in {"A", "C", "D", "G", "I", "L", "M", "N", "O", "P", "S", "T", "V", "W"} |->
        CASE c = "A" -> "a" [] c = "C" -> "c" [] c = "D" -> "d" [] c = "G" -> "g"
          [] c = "I" -> "i" [] c = "L" -> "l" [] c = "M" -> "m" [] c = "N" -> "n"
          [] c = "O" -> "o" [] c = "P" -> "p" [] c = "S" -> "s" [] c = "T" -> "t"
          [] c = "V" -> "v" [] c = "W" -> "w"]

\* String.prototype.toLowerCase
toLowerCase(s) ==
    [i \in 1..Len(s) |-> IF s[i] \in DOMAIN UpperToLower THEN UpperToLower[s[i]] ELSE s[i]]

RECURSIVE trimStart(_)
trimStart(s) == IF s # << >> /\ Head(s) = " " THEN trimStart(Tail(s)) ELSE s

RECURSIVE trimEnd(_)
trimEnd(s) ==
    IF s # << >> /\ s[Len(s)] = " " THEN trimEnd(SubSeq(s, 1, Len(s) - 1)) ELSE s

\* String.prototype.trim
trim(s) == trimEnd(trimStart(s))

\* String.prototype.includes
includes(s, t) ==
    \E i \in 0..(Len(s) - Len(t)) : SubSeq(s, i + 1, i + Len(t)) = t

Digit(d) ==
    CASE d = 0 -> "0" [] d = 1 -> "1" [] d = 2 -> "2" [] d = 3 -> "3" [] d = 4 -> "4"
      [] d = 5 -> "5" [] d = 6 -> "6" [] d = 7 -> "7" [] d = 8 -> "8" [] d = 9 -> "9"

\* Number.prototype.toString of a non-negative integer
RECURSIVE toString(_)
toString(n) == IF n < 10 THEN <<Digit(n)>> ELSE toString(n \div 10) \o <<Digit(n % 10)>>

\* primary.split(':'): the number of parts and the first part
RECURSIVE splitCount(_)
splitCount(s) ==
    IF s = << >> THEN 1
    ELSE (IF Head(s) = ":" THEN 1 ELSE 0) + splitCount(Tail(s))

RECURSIVE splitFirst(_)
splitFirst(s) ==
    IF s = << >> \/ Head(s) = ":" THEN << >> ELSE <<Head(s)>> \o splitFirst(Tail(s))

Range(f) == {f[i] : i \in DOMAIN f}

(***************************************************************************)
(* Variant records (core/models/analysis.model, as the component reads     *)
(* them).  hgvs is undefined, a string or an array of strings;             *)
(* polymorphism is the sequence of companion records, of which the         *)
(* component reads the patient only (an absent polymorphism and an empty   *)
(* one behave alike in every method).                                      *)
(***************************************************************************)
hgvsNone == [kind |-> "undefined", str |-> sEmpty, arr |-> << >>]
hgvsStr(s) == [kind |-> "string", str |-> s, arr |-> << >>]
hgvsArr(a) == [kind |-> "array", str |-> sEmpty, arr |-> a]

Variant(pos, ref, alt, type, patient, filter, consequence, hgvs, poly) ==
    [position |-> pos, ref |-> ref, alt |-> alt, type |-> type, patient |-> patient,
     filter |-> filter, consequence |-> consequence, hgvs |-> hgvs,
     polymorphism |-> poly]

Companion(patient) == [patient |-> patient]

\* The spec's scenario records, with the optional fields varied.
V1 == Variant(100, sA, sG, sSNV, sP1, sPASS, sMis, hgvsStr(sNMc1), << >>)
V2 == Variant(200, sC, sT, sIndel, sP2, sLOW, undefined, hgvsNone, <<Companion(sP1)>>)
V3 == Variant(100, sA, sG, ssnv, sP2, undefined, sMis, hgvsArr(<<sNMc1, sNPp1>>), << >>)
V4 == Variant(20, sG, sT, sSNV, sP1, sLOW, undefined, hgvsStr(sNPp1), << >>)
V5 == Variant(7, sC, sA, sIndel, sP2, sPASS, sMis, hgvsStr(sNoColon), << >>)

VariantUniverse == {V1, V2, V3, V4, V5}


(***************************************************************************)
(* State: the input signals (variants, jobId, hgvsAlternatives), the       *)
(* component's own signals, the external services' state, and what the     *)
(* last step handed to the outside.                                        *)
(***************************************************************************)
VARIABLES
    variants,           \* input: the variant collection
    hgvsAlternatives,   \* input: persisted alternatives, key -> sequence of names
    jobId,              \* input: the job identifier, or undefined (null)
    searchTerm,         \* signal
    filterType,         \* signal
    filterPatient,      \* signal
    filterConsequence,  \* signal
    filterQuality,      \* signal
    hgvsStates,         \* signal: Map key -> {loading, error, alternatives}
    inflight,           \* bag of suspended fetchHgvsAlternatives calls
    marks,              \* ReportService: the marked <<job, position>> pairs
    toast,              \* ToastService.show calls of the last step
    ret                 \* ensureVariantVisible's last call, while it is the last step

inputs == <<variants, hgvsAlternatives, jobId>>
filters == <<searchTerm, filterType, filterPatient, filterConsequence, filterQuality>>
vars == <<variants, hgvsAlternatives, jobId, searchTerm, filterType, filterPatient,
          filterConsequence, filterQuality, hgvsStates, inflight, marks, toast, ret>>

\* Map.prototype.set on a copy of the map
MapSet(m, k, e) == [x \in DOMAIN m \cup {k} |-> IF x = k THEN e ELSE m[x]]

Entry(l, e, a) == [loading |-> l, error |-> e, alternatives |-> a]

(***************************************************************************)
(* Derived values (computed signals and helper methods).                   *)
(***************************************************************************)
\* getHgvsKey with a string-valued hgvs field overlooked: only an array gives
\* the key, a string falls back to the position.
getHgvsKeyArrayOnly(v) ==
    IF v.hgvs.kind = "array" /\ Len(v.hgvs.arr) > 0 THEN v.hgvs.arr[1]
    ELSE toString(v.position)

\* getHgvsKey: the raw HGVS string if there is one, else the position.
getHgvsKey(v) ==
    IF v.hgvs.kind = "array" /\ Len(v.hgvs.arr) > 0 THEN v.hgvs.arr[1]
    ELSE IF v.hgvs.kind = "string" /\ Truthy(v.hgvs.str) /\ trim(v.hgvs.str) # sEmpty
         THEN v.hgvs.str
         ELSE toString(v.position)

\* getHgvs' last three lines: the raw hgvs field as a sequence
rawHgvs(v) ==
    IF v.hgvs.kind = "undefined" \/ (v.hgvs.kind = "string" /\ ~Truthy(v.hgvs.str))
    THEN << >>
    ELSE IF v.hgvs.kind = "array" THEN v.hgvs.arr ELSE <<v.hgvs.str>>

\* getHgvs with the cache overlooked: the raw field only.
getHgvsRawOnly(v) == rawHgvs(v)

\* getHgvs: the cached alternatives if any, else the raw field as a sequence.
getHgvs(v) ==
    LET key == getHgvsKey(v)
    IN  IF key \in DOMAIN hgvsStates /\ Len(hgvsStates[key].alternatives) > 0
        THEN hgvsStates[key].alternatives
        ELSE rawHgvs(v)

\* getHgvsState: Map.get, << >> standing for undefined
getHgvsState(v) ==
    IF getHgvsKey(v) \in DOMAIN hgvsStates THEN <<hgvsStates[getHgvsKey(v)]>> ELSE << >>

\* getInvolvedPatients: the set of the record's and its companions' patients
\* (the code returns it sorted; every caller is insensitive to the order).
getInvolvedPatients(v) ==
    {v.patient} \cup {v.polymorphism[i].patient : i \in DOMAIN v.polymorphism}

\* availableQualities of a collection (as a set: the effect only asks
\* includes('PASS'))
availableQualitiesOf(vs) == {vs[i].filter : i \in {j \in DOMAIN vs : Truthy(vs[j].filter)}}

availableQualities == availableQualitiesOf(variants)

NoOverrides ==
    [type |-> undefined, patient |-> undefined, quality |-> undefined,
     consequence |-> undefined]

\* a ?? b
Coalesce(a, b) == IF a # undefined THEN a ELSE b

\* The search stage reading the names of the whole cache, whatever the key,
\* beside the record's raw names.
searchStageAnyEntry(v, search) ==
    LET mutation == toLowerCase(v.ref \o toString(v.position) \o v.alt)
        posStr == toString(v.position)
        involvedPatients == {toLowerCase(p) : p \in getInvolvedPatients(v)}
        cached == UNION {Range(hgvsStates[k].alternatives) : k \in DOMAIN hgvsStates}
        hgvs == {toLowerCase(h) : h \in Range(rawHgvs(v)) \cup cached}
    IN  \/ includes(mutation, search)
        \/ includes(posStr, search)
        \/ \E p \in involvedPatients : includes(p, search)
        \/ \E h \in hgvs : includes(h, search)

\* applyFilters' search stage predicate
searchStage(v, search) ==
    LET mutation == toLowerCase(v.ref \o toString(v.position) \o v.alt)
        posStr == toString(v.position)
        involvedPatients == {toLowerCase(p) : p \in getInvolvedPatients(v)}
        hgvs == {toLowerCase(h) : h \in Range(getHgvs(v))}
    IN  \/ includes(mutation, search)
        \/ includes(posStr, search)
        \/ \E p \in involvedPatients : includes(p, search)
        \/ \E h \in hgvs : includes(h, search)

\* The quality stage without "absence passes": only an equal flag passes.
qualityStageStrict(v, qualityFilter) == v.filter = qualityFilter

qualityStage(v, qualityFilter) ==
    IF ~Truthy(v.filter) THEN TRUE ELSE v.filter = qualityFilter

\* The type stage comparing the record's type as written.
typeStageCaseSensitive(v, typeFilter) == v.type = typeFilter

typeStage(v, typeFilter) == toLowerCase(v.type) = typeFilter

patientStage(v, patientFilter) ==
    \/ v.patient = patientFilter
    \/ \E i \in DOMAIN v.polymorphism : v.polymorphism[i].patient = patientFilter

consequenceStage(v, consequenceFilter) == v.consequence = consequenceFilter

applyFilters(overrides) ==
    LET search == trim(toLowerCase(searchTerm))
        typeFilter == toLowerCase(Coalesce(overrides.type, filterType))
        patientFilter == Coalesce(overrides.patient, filterPatient)
        qualityFilter == Coalesce(overrides.quality, filterQuality)
        consequenceFilter == Coalesce(overrides.consequence, filterConsequence)
        Q(v) == qualityStage(v, qualityFilter)
        T(v) == typeStage(v, typeFilter)
        P(v) == patientStage(v, patientFilter)
        C(v) == consequenceStage(v, consequenceFilter)
        S(v) == searchStage(v, search)
        l0 == variants
        l1 == IF qualityFilter # sAll THEN SelectSeq(l0, Q) ELSE l0
        l2 == IF typeFilter # sall THEN SelectSeq(l1, T) ELSE l1
        l3 == IF patientFilter # sAll THEN SelectSeq(l2, P) ELSE l2
        l4 == IF consequenceFilter # sAll THEN SelectSeq(l3, C) ELSE l3
        l5 == IF search # sEmpty THEN SelectSeq(l4, S) ELSE l4
    IN  l5

filteredVariants == applyFilters(NoOverrides)

\* Whether one stage of applyFilters, under the live state, drops a record:
\* the stage is active and its predicate fails.
excludedBySearch(v) ==
    LET search == trim(toLowerCase(searchTerm))
    IN  search # sEmpty /\ ~searchStage(v, search)

excludedByType(v) ==
    LET typeFilter == toLowerCase(filterType)
    IN  typeFilter # sall /\ ~typeStage(v, typeFilter)

excludedByPatient(v) == filterPatient # sAll /\ ~patientStage(v, filterPatient)

excludedByQuality(v) == filterQuality # sAll /\ ~qualityStage(v, filterQuality)

excludedByConsequence(v) ==
    filterConsequence # sAll /\ ~consequenceStage(v, filterConsequence)

totalCount == Len(filteredVariants)

(***************************************************************************)
(* Facet counters.  counts is the Record<string, number> the code fills:   *)
(* a function from the keys set so far to their counts.                    *)
(***************************************************************************)
\* The increment with the running count dropped: counts[k] = 1
IncrementFromZero(counts, k) == MapSet(counts, k, 1)

\* counts[k] = (counts[k] ?? 0) + 1
Increment(counts, k) ==
    IF k \in DOMAIN counts THEN [counts EXCEPT ![k] = @ + 1] ELSE MapSet(counts, k, 1)

\* baseFiltered.forEach over one key per record
RECURSIVE CountEach(_, _)
CountEach(counts, keys) ==
    IF keys = << >> THEN counts
    ELSE CountEach(Increment(counts, Head(keys)), Tail(keys))

\* patients.forEach(p => counts[p] = ...) over a set of keys
RECURSIVE IncrementAll(_, _)
IncrementAll(counts, keys) ==
    IF keys = {} THEN counts
    ELSE LET k == CHOOSE x \in keys : TRUE
         IN  IncrementAll(Increment(counts, k), keys \ {k})

RECURSIVE CountPatients(_, _)
CountPatients(counts, list) ==
    IF list = << >> THEN counts
    ELSE CountPatients(IncrementAll(counts, getInvolvedPatients(Head(list))), Tail(list))

RECURSIVE CountConsequences(_, _)
CountConsequences(counts, list) ==
    IF list = << >> THEN counts
    ELSE CountConsequences(
             IF Truthy(Head(list).consequence)
             THEN Increment(counts, Head(list).consequence) ELSE counts,
             Tail(list))

\* The type counts taken over the displayed list, the type filter applied.
typeCountsOfDisplayed ==
    LET baseFiltered == applyFilters(NoOverrides)
        keys == [i \in DOMAIN baseFiltered |-> baseFiltered[i].type]
    IN  MapSet(CountEach(<< >>, keys), sAll, Len(baseFiltered))

\* The type counts keyed by the case-folded type, as the type stage compares.
typeCountsFolded ==
    LET baseFiltered == applyFilters([NoOverrides EXCEPT !.type = sAll])
        keys == [i \in DOMAIN baseFiltered |-> toLowerCase(baseFiltered[i].type)]
    IN  MapSet(CountEach(<< >>, keys), sAll, Len(baseFiltered))

typeCounts ==
    LET baseFiltered == applyFilters([NoOverrides EXCEPT !.type = sAll])
        keys == [i \in DOMAIN baseFiltered |-> baseFiltered[i].type]
    IN  MapSet(CountEach(<< >>, keys), sAll, Len(baseFiltered))

qualityCounts ==
    LET baseFiltered == applyFilters([NoOverrides EXCEPT !.quality = sAll])
        keys == [i \in DOMAIN baseFiltered |->
                    IF Truthy(baseFiltered[i].filter) THEN baseFiltered[i].filter ELSE sNA]
    IN  MapSet(CountEach(<< >>, keys), sAll, Len(baseFiltered))

patientCounts ==
    LET baseFiltered == applyFilters([NoOverrides EXCEPT !.patient = sAll])
    IN  MapSet(CountPatients(<< >>, baseFiltered), sAll, Len(baseFiltered))

consequenceCounts ==
    LET baseFiltered == applyFilters([NoOverrides EXCEPT !.consequence = sAll])
    IN  MapSet(CountConsequences(<< >>, baseFiltered), sAll, Len(baseFiltered))

(***************************************************************************)
(* Steps.  Every step sets toast to what it shows and ret to what it       *)
(* returns; NoRet stands for a step that is not ensureVariantVisible.      *)
(***************************************************************************)
NoRet == << >>
Toast(msg, kind) == [msg |-> msg, kind |-> kind]
NoJob == undefined
sJob == <<"j", "1">>

\* The effect of the constructor: seeds hgvsStates from the hgvsAlternatives
\* input and defaults the quality filter.  It reads hgvsAlternatives and
\* (through availableQualities) variants, and runs again when either changes.
SeededStates(inputAlts) ==
    [k \in DOMAIN inputAlts |-> Entry(FALSE, FALSE, inputAlts[k])]

DefaultQuality(vs) == IF sPASS \in availableQualitiesOf(vs) THEN sPASS ELSE sAll

Effect(vs, inputAlts) ==
    /\ hgvsStates' = SeededStates(inputAlts)
    /\ filterQuality' = DefaultQuality(vs)

\* The parent replaces the variants input (an analysis refresh).
VariantsInput(vs) ==
    /\ variants' = vs
    /\ Effect(vs, hgvsAlternatives)
    /\ toast' = << >>
    /\ ret' = NoRet
    /\ UNCHANGED <<hgvsAlternatives, jobId, searchTerm, filterType, filterPatient,
                   filterConsequence, inflight, marks>>

\* The parent replaces the hgvsAlternatives input.
HgvsAlternativesInput(alts) ==
    /\ hgvsAlternatives' = alts
    /\ Effect(variants, alts)
    /\ toast' = << >>
    /\ ret' = NoRet
    /\ UNCHANGED <<variants, jobId, searchTerm, filterType, filterPatient,
                   filterConsequence, inflight, marks>>

\* The parent replaces the jobId input (no effect reads it).
JobIdInput(j) ==
    /\ jobId' = j
    /\ toast' = << >>
    /\ ret' = NoRet
    /\ UNCHANGED <<variants, hgvsAlternatives, filters, hgvsStates, inflight, marks>>

updateSearchTerm(term) ==
    /\ searchTerm' = term
    /\ toast' = << >>
    /\ ret' = NoRet
    /\ UNCHANGED <<inputs, filterType, filterPatient, filterConsequence, filterQuality,
                   hgvsStates, inflight, marks>>

setQualityFilter(quality) ==
    /\ filterQuality' = quality
    /\ toast' = << >>
    /\ ret' = NoRet
    /\ UNCHANGED <<inputs, searchTerm, filterType, filterPatient, filterConsequence,
                   hgvsStates, inflight, marks>>

setFilter(type) ==
    /\ filterType' = type
    /\ toast' = << >>
    /\ ret' = NoRet
    /\ UNCHANGED <<inputs, searchTerm, filterPatient, filterConsequence, filterQuality,
                   hgvsStates, inflight, marks>>

setPatientFilter(patient) ==
    /\ filterPatient' = patient
    /\ toast' = << >>
    /\ ret' = NoRet
    /\ UNCHANGED <<inputs, searchTerm, filterType, filterConsequence, filterQuality,
                   hgvsStates, inflight, marks>>

setConsequenceFilter(consequence) ==
    /\ filterConsequence' = consequence
    /\ toast' = << >>
    /\ ret' = NoRet
    /\ UNCHANGED <<inputs, searchTerm, filterType, filterPatient, filterQuality,
                   hgvsStates, inflight, marks>>

\* The click handlers on a row's pills.
onPillClick(type) == setFilter(type)

onQualityClick(quality) == setQualityFilter(IF Truthy(quality) THEN quality ELSE sAll)

onPatientClick(patient) == setPatientFilter(patient)

onConsequenceClick(consequence) == setConsequenceFilter(consequence)

\* ensureVariantVisible's five tests, each on the live state
matchesSearch(v, search) ==
    LET mutation == toLowerCase(v.ref \o toString(v.position) \o v.alt)
        posStr == toString(v.position)
        involvedPatients == {toLowerCase(p) : p \in getInvolvedPatients(v)}
        hgvs == {toLowerCase(h) : h \in Range(getHgvs(v))}
    IN  \/ includes(mutation, search)
        \/ includes(posStr, search)
        \/ \E p \in involvedPatients : includes(p, search)
        \/ \E h \in hgvs : includes(h, search)

resetsSearch(v) ==
    LET search == trim(toLowerCase(searchTerm))
    IN  search # sEmpty /\ ~matchesSearch(v, search)

resetsType(v) ==
    filterType # sAll /\ toLowerCase(filterType) # toLowerCase(v.type)

resetsPatient(v) ==
    filterPatient # sAll /\ filterPatient \notin getInvolvedPatients(v)

resetsQuality(v) ==
    filterQuality # sAll /\ (Truthy(v.filter) /\ v.filter # filterQuality)

\* The consequence test written after the quality test's "absence passes"
resetsConsequenceIfPresent(v) ==
    filterConsequence # sAll /\ (Truthy(v.consequence) /\ v.consequence # filterConsequence)

resetsConsequence(v) ==
    filterConsequence # sAll /\ v.consequence # filterConsequence

ensureVariantVisible(v) ==
    /\ searchTerm' = IF resetsSearch(v) THEN sEmpty ELSE searchTerm
    /\ filterType' = IF resetsType(v) THEN sAll ELSE filterType
    /\ filterPatient' = IF resetsPatient(v) THEN sAll ELSE filterPatient
    /\ filterQuality' = IF resetsQuality(v) THEN sAll ELSE filterQuality
    /\ filterConsequence' = IF resetsConsequence(v) THEN sAll ELSE filterConsequence
    /\ ret' = <<[v |-> v,
                 needsUpdate |-> \/ resetsSearch(v) \/ resetsType(v) \/ resetsPatient(v)
                                 \/ resetsQuality(v) \/ resetsConsequence(v)]>>
    /\ toast' = << >>
    /\ UNCHANGED <<inputs, hgvsStates, inflight, marks>>

(***************************************************************************)
(* The report marks.  ReportService is not part of the source at hand; it  *)
(* is modelled from the specification's section 4.5: toggleMark flips the  *)
(* membership of the position in the job's set, isMarked reads it.         *)
(***************************************************************************)
toggleMark(m, jId, position) ==
    IF <<jId, position>> \in m THEN m \ {<<jId, position>>} ELSE m \cup {<<jId, position>>}

isMarked(m, jId, position) == <<jId, position>> \in m

\* toggleReport that only ever marks: a marked position stays marked.
toggleReportMarkOnly(v) ==
    /\ IF ~Truthy(jobId)
       THEN /\ toast' = <<Toast("Job ID not found", "error")>>
            /\ marks' = marks
       ELSE /\ marks' = marks \cup {<<jobId, v.position>>}
            /\ toast' = <<Toast(IF isMarked(marks', jobId, v.position)
                                THEN "Added to report" ELSE "Removed from report",
                                "success")>>
    /\ ret' = NoRet
    /\ UNCHANGED <<inputs, filters, hgvsStates, inflight>>

\* toggleReport without the test of the job identifier.
toggleReportWithoutGuard(v) ==
    /\ marks' = toggleMark(marks, jobId, v.position)
    /\ toast' = <<Toast(IF isMarked(marks', jobId, v.position)
                        THEN "Added to report" ELSE "Removed from report",
                        "success")>>
    /\ ret' = NoRet
    /\ UNCHANGED <<inputs, filters, hgvsStates, inflight>>

toggleReport(v) ==
    /\ IF ~Truthy(jobId)
       THEN /\ toast' = <<Toast("Job ID not found", "error")>>
            /\ marks' = marks
       ELSE /\ marks' = toggleMark(marks, jobId, v.position)
            /\ toast' = <<Toast(IF isMarked(marks', jobId, v.position)
                                THEN "Added to report" ELSE "Removed from report",
                                "success")>>
    /\ ret' = NoRet
    /\ UNCHANGED <<inputs, filters, hgvsStates, inflight>>

isMarkedForReport(v) == IF ~Truthy(jobId) THEN FALSE ELSE isMarked(marks, jobId, v.position)

(***************************************************************************)
(* The annotation cache.  fetchHgvsAlternatives runs to its first await in *)
(* one step; the call then waits in inflight (phase "lookup") until the    *)
(* annotation service resolves or rejects; with a job identifier it waits  *)
(* once more (phase "persist") for addJobHgvsAlternatives.                 *)
(***************************************************************************)
\* The entry written before the lookup with the loading flag left off
LoadingEntryNotPending == Entry(FALSE, FALSE, << >>)

LoadingEntry == Entry(TRUE, FALSE, << >>)

SuccessEntry(alternatives) == Entry(FALSE, FALSE, alternatives)

\* The catch block's entry with the loading flag left on
ErrorEntryStillLoading == Entry(TRUE, TRUE, << >>)

ErrorEntry == Entry(FALSE, TRUE, << >>)

\* The suspended call: its locals (key, primary, transcript, the record's
\* lookup arguments) and, while persisting, what it persists.
Call(v, key, primary) ==
    [key |-> key, primary |-> primary, transcript |-> splitFirst(primary),
     position |-> v.position, ref |-> v.ref, alt |-> v.alt,
     phase |-> "lookup", jobId |-> NoJob, alternatives |-> << >>]

Add(bag, r) == bag (+) SetToBag({r})

Remove(bag, r) == bag (-) SetToBag({r})

\* The guards without the first: a record that already has alternatives is
\* looked up again.
fetchProceedsWithAlternatives(v) ==
    LET currentHgvs == getHgvs(v)
    IN  /\ ~(Len(currentHgvs) = 0)
        /\ ~(splitCount(currentHgvs[1]) < 2)

\* The guards without the last: a name without a colon is looked up.
fetchProceedsWithoutColon(v) ==
    LET currentHgvs == getHgvs(v)
    IN  /\ ~(Len(currentHgvs) > 1)
        /\ ~(Len(currentHgvs) = 0)

\* The guards of fetchHgvsAlternatives: it goes on to the lookup only with
\* exactly one resolved name, and one that has a colon.
fetchProceeds(v) ==
    LET currentHgvs == getHgvs(v)
    IN  /\ ~(Len(currentHgvs) > 1)
        /\ ~(Len(currentHgvs) = 0)
        /\ ~(splitCount(currentHgvs[1]) < 2)

fetchHgvsAlternatives(v) ==
    /\ IF fetchProceeds(v)
       THEN LET key == getHgvsKey(v)
                primary == getHgvs(v)[1]
            IN  /\ hgvsStates' = MapSet(hgvsStates, key, LoadingEntry)
                /\ inflight' = Add(inflight, Call(v, key, primary))
       ELSE UNCHANGED <<hgvsStates, inflight>>
    /\ toast' = << >>
    /\ ret' = NoRet
    /\ UNCHANGED <<inputs, filters, marks>>

\* analysisService.getHgvsAlternatives resolves with alternatives.
LookupResolve(r, alternatives) ==
    /\ BagIn(r, inflight) /\ r.phase = "lookup"
    /\ hgvsStates' = MapSet(hgvsStates, r.key, SuccessEntry(alternatives))
    /\ toast' = <<Toast("Alternatives received", "success")>>
    /\ inflight' =
          IF Truthy(jobId)
          THEN Add(Remove(inflight, r),
                   [r EXCEPT !.phase = "persist", !.jobId = jobId,
                             !.alternatives = alternatives])
          ELSE Remove(inflight, r)
    /\ ret' = NoRet
    /\ UNCHANGED <<inputs, filters, marks>>

\* The catch block with the entry forgotten: console.error alone.
CatchWithoutEntry(r) ==
    /\ hgvsStates' = hgvsStates
    /\ toast' = << >>

\* The catch block: console.error and the error entry.
Catch(r) ==
    /\ hgvsStates' = MapSet(hgvsStates, r.key, ErrorEntry)
    /\ toast' = << >>

\* analysisService.getHgvsAlternatives rejects.
LookupReject(r) ==
    /\ BagIn(r, inflight) /\ r.phase = "lookup"
    /\ Catch(r)
    /\ inflight' = Remove(inflight, r)
    /\ ret' = NoRet
    /\ UNCHANGED <<inputs, filters, marks>>

\* analysisService.addJobHgvsAlternatives resolves: the call returns.
PersistResolve(r) ==
    /\ BagIn(r, inflight) /\ r.phase = "persist"
    /\ inflight' = Remove(inflight, r)
    /\ toast' = << >>
    /\ ret' = NoRet
    /\ UNCHANGED <<inputs, filters, hgvsStates, marks>>

\* analysisService.addJobHgvsAlternatives rejects: it was awaited inside the
\* same try block.
PersistReject(r) ==
    /\ BagIn(r, inflight) /\ r.phase = "persist"
    /\ Catch(r)
    /\ inflight' = Remove(inflight, r)
    /\ ret' = NoRet
    /\ UNCHANGED <<inputs, filters, marks>>

(***************************************************************************)
(* The inputs the steps are driven with.                                   *)
(***************************************************************************)
\* The collections: up to MaxVariants records of the universe, in the
\* order of UniverseOrder (which is not the order of any field).
UniverseOrder == <<V1, V2, V3, V4, V5>>

Pick(S) == LET In(v) == v \in S IN SelectSeq(UniverseOrder, In)

Collections == {Pick(S) : S \in {T \in SUBSET VariantUniverse : Cardinality(T) <= MaxVariants}}

SearchTerms == {sEmpty, sBlank, sQp1, sQnp}
TypeInputs == {sAll, sall, sSNV, sIndel}
PatientInputs == {sAll, sP1, sP2}
QualityInputs == {sAll, sPASS, sLOW}
ConsequenceInputs == {sAll, sMis}
JobIds == {NoJob, sJob}

\* What the annotation service may answer, and what a job may hold.
LookupResults == {<< >>, <<sNPp1>>, <<sNMc1, sNPp1>>}
NoAlternatives == << >>
AltInputs == {NoAlternatives, [k \in {sNMc1} |-> <<sNPp1, sNMc1>>]}

\* The collections the parent refreshes with where the cache runs on its
\* own; the collections and the search terms where the whole component runs.
Refreshes == {<<V1, V3, V4>>, <<V2, V5>>}
SessionCollections == {<<V1, V3>>, <<V3>>}
TypedTerms == {sEmpty, sQnp}

(***************************************************************************)
(* The component: every handler, each input change, each completion.       *)
(***************************************************************************)
InitWith(collections) ==
    /\ variants \in collections
    /\ hgvsAlternatives \in AltInputs
    /\ jobId \in JobIds
    /\ searchTerm = sEmpty
    /\ filterType = sAll
    /\ filterPatient = sAll
    /\ filterConsequence = sAll
    /\ filterQuality = DefaultQuality(variants)
    /\ hgvsStates = SeededStates(hgvsAlternatives)
    /\ inflight = EmptyBag
    /\ marks = {}
    /\ toast = << >>
    /\ ret = NoRet

Init == InitWith(SessionCollections)

InputStep(collections) ==
    \/ \E vs \in collections : VariantsInput(vs)
    \/ \E alts \in AltInputs : HgvsAlternativesInput(alts)
    \/ \E j \in JobIds : JobIdInput(j)

ClickStep ==
    \/ \E v \in Range(variants) : onPillClick(v.type)
    \/ \E v \in Range(variants) : onQualityClick(v.filter)
    \/ \E v \in Range(variants) : \E p \in getInvolvedPatients(v) : onPatientClick(p)
    \/ \E v \in Range(variants) : Truthy(v.consequence) /\ onConsequenceClick(v.consequence)

\* A completion of a suspended call
Completion ==
    \/ \E r \in BagToSet(inflight) : \E alternatives \in LookupResults :
          LookupResolve(r, alternatives)
    \/ \E r \in BagToSet(inflight) : LookupReject(r)
    \/ \E r \in BagToSet(inflight) : PersistResolve(r)
    \/ \E r \in BagToSet(inflight) : PersistReject(r)

\* Overlapping calls are not deduplicated: any number may be in flight, and
\* the model explores up to MaxInflight of them.
CacheStep ==
    \/ /\ BagCardinality(inflight) < MaxInflight
       /\ \E v \in Range(variants) : fetchHgvsAlternatives(v)
    \/ Completion

Next ==
    \/ InputStep(SessionCollections)
    \/ ClickStep
    \/ \E term \in TypedTerms : updateSearchTerm(term)
    \/ setFilter(sAll)
    \/ setPatientFilter(sAll)
    \/ setQualityFilter(sAll)
    \/ setConsequenceFilter(sAll)
    \/ \E v \in Range(variants) : ensureVariantVisible(v)
    \/ \E v \in Range(variants) : toggleReport(v)
    \/ inflight = EmptyBag /\ \E v \in Range(variants) : fetchHgvsAlternatives(v)
    \/ Completion

Spec == Init /\ [][Next]_vars

(***************************************************************************)
(* The annotation cache on its own: fetches, completions and input         *)
(* changes, with the filters as the effect leaves them.                    *)
(***************************************************************************)
InitCache == InitWith(Refreshes)

NextCache == InputStep(Refreshes) \/ CacheStep

SpecCache == InitCache /\ [][NextCache]_vars

(***************************************************************************)
(* The filter engine on its own: any collection, any filter state the      *)
(* setters can set, any seeded cache; the setters and the reconciler.      *)
(***************************************************************************)
InitFilter ==
    /\ variants \in Collections
    /\ hgvsAlternatives \in AltInputs
    /\ jobId = NoJob
    /\ searchTerm \in SearchTerms
    /\ filterType \in TypeInputs
    /\ filterPatient \in PatientInputs
    /\ filterConsequence \in ConsequenceInputs
    /\ filterQuality \in QualityInputs
    /\ hgvsStates = SeededStates(hgvsAlternatives)
    /\ inflight = EmptyBag
    /\ marks = {}
    /\ toast = << >>
    /\ ret = NoRet

NextFilter ==
    \/ \E term \in SearchTerms : updateSearchTerm(term)
    \/ \E type \in TypeInputs : setFilter(type)
    \/ \E patient \in PatientInputs : setPatientFilter(patient)
    \/ \E quality \in QualityInputs : setQualityFilter(quality)
    \/ \E consequence \in ConsequenceInputs : setConsequenceFilter(consequence)
    \/ \E v \in Range(variants) : ensureVariantVisible(v)

SpecFilter == InitFilter /\ [][NextFilter]_vars

(***************************************************************************)
(* The annotation cache with a fair annotation service: every lookup that  *)
(* was issued returns or fails.  Nothing is assumed of the parent, the     *)
(* user or the persistence call.                                           *)
(***************************************************************************)
\* The lookups a fetch can issue: the record's key with its raw name or with
\* the single cached name as the primary.
LookupCalls ==
    {Call(v, getHgvsKey(v), primary) :
        v \in UNION {Range(vs) : vs \in Refreshes},
        primary \in {sNMc1, sNPp1}}

LookupCompletes(r) ==
    \/ LookupReject(r)
    \/ \E alternatives \in LookupResults : LookupResolve(r, alternatives)

\* The job is set throughout, so that every successful lookup is persisted.
InitCacheFair == InitCache /\ jobId = sJob

NextCacheFair ==
    \/ \E vs \in Refreshes : VariantsInput(vs)
    \/ \E alts \in AltInputs : HgvsAlternativesInput(alts)
    \/ CacheStep

SpecCacheFair ==
    /\ InitCacheFair /\ [][NextCacheFair]_vars
    /\ \A r \in LookupCalls : WF_vars(LookupCompletes(r))

(***************************************************************************)
(* The cache under a typed search: one fetch at a time, its completions,   *)
(* the input changes and the search box.  A job may hold alternatives      *)
(* under the position key of a record without a name.                      *)
(***************************************************************************)
SearchAltInputs == AltInputs \cup {[k \in {toString(V2.position)} |-> <<sNPp1>>]}

InitSearch ==
    /\ variants \in Refreshes
    /\ hgvsAlternatives \in SearchAltInputs
    /\ jobId \in JobIds
    /\ searchTerm \in TypedTerms
    /\ filterType = sAll
    /\ filterPatient = sAll
    /\ filterConsequence = sAll
    /\ filterQuality = DefaultQuality(variants)
    /\ hgvsStates = SeededStates(hgvsAlternatives)
    /\ inflight = EmptyBag
    /\ marks = {}
    /\ toast = << >>
    /\ ret = NoRet

NextSearch ==
    \/ \E vs \in Refreshes : VariantsInput(vs)
    \/ \E alts \in SearchAltInputs : HgvsAlternativesInput(alts)
    \/ \E j \in JobIds : JobIdInput(j)
    \/ \E term \in TypedTerms : updateSearchTerm(term)
    \/ inflight = EmptyBag /\ \E v \in Range(variants) : fetchHgvsAlternatives(v)
    \/ Completion

SpecSearch == InitSearch /\ [][NextSearch]_vars

(***************************************************************************)
(* The report marks on their own: the parent changes the job and the       *)
(* collection, the user toggles marks.  The marks outlive both changes.    *)
(***************************************************************************)
sJob2 == <<"j", "2">>

ReportJobIds == {NoJob, sJob, sJob2}

InitReport ==
    /\ variants \in Refreshes
    /\ hgvsAlternatives = NoAlternatives
    /\ jobId \in ReportJobIds
    /\ searchTerm = sEmpty
    /\ filterType = sAll
    /\ filterPatient = sAll
    /\ filterConsequence = sAll
    /\ filterQuality = DefaultQuality(variants)
    /\ hgvsStates = SeededStates(hgvsAlternatives)
    /\ inflight = EmptyBag
    /\ marks = {}
    /\ toast = << >>
    /\ ret = NoRet

NextReport ==
    \/ \E vs \in Refreshes : VariantsInput(vs)
    \/ \E j \in ReportJobIds : JobIdInput(j)
    \/ \E v \in Range(variants) : toggleReport(v)

SpecReport == InitReport /\ [][NextReport]_vars

(***************************************************************************)
(* Properties.                                                             *)
(***************************************************************************)
Entries == DOMAIN hgvsStates

Calls == BagToSet(inflight)

\* The seeding effect ran in this step (only the two input changes run it).
EffectRan ==
    \/ \E vs \in Refreshes \cup SessionCollections : VariantsInput(vs)
    \/ \E alts \in AltInputs : HgvsAlternativesInput(alts)

\* C1: when addJobHgvsAlternatives fails after a successful lookup, the
\* cache entry of the call's key keeps the success state the lookup left:
\* the failure changes no cache entry.
C1_PersistFailureKeepsSuccess ==
    [][\A r \in Calls : PersistReject(r) => hgvsStates' = hgvsStates]_vars

\* C9: for every key, error implies not loading and no alternatives, and
\* loading implies no alternatives.
C9_OneStatePerKey ==
    \A k \in Entries :
        /\ hgvsStates[k].error =>
              ~hgvsStates[k].loading /\ hgvsStates[k].alternatives = << >>
        /\ hgvsStates[k].loading => hgvsStates[k].alternatives = << >>

\* An error entry beside a pending one, while a persistence call is in flight.
C9_Witness ==
    /\ \E k \in Entries : hgvsStates[k].error
    /\ \E k \in Entries : hgvsStates[k].loading
    /\ \E r \in Calls : r.phase = "persist"

\* C10: when the lookup fails, the entry of the call's key ends as
\* {loading: false, error: true, alternatives: []} and an error toast is
\* shown.
C10_LookupFailureNotified ==
    [][\A r \in Calls : LookupReject(r) =>
          /\ r.key \in DOMAIN hgvsStates'
          /\ hgvsStates'[r.key] = Entry(FALSE, TRUE, << >>)
          /\ \E i \in DOMAIN toast' : toast'[i].kind = "error"]_vars

\* C2: ensureVariantVisible resets exactly the dimensions whose own stage of
\* applyFilters excludes the record and leaves the others untouched; it
\* returns whether one was reset, so false for a record that already passes.
C2_ResetsExactlyTheExcluding ==
    [][ret' # NoRet =>
          LET v == ret'[1].v
          IN  /\ searchTerm' = IF excludedBySearch(v) THEN sEmpty ELSE searchTerm
              /\ filterType' = IF excludedByType(v) THEN sAll ELSE filterType
              /\ filterPatient' = IF excludedByPatient(v) THEN sAll ELSE filterPatient
              /\ filterQuality' = IF excludedByQuality(v) THEN sAll ELSE filterQuality
              /\ filterConsequence' =
                    IF excludedByConsequence(v) THEN sAll ELSE filterConsequence
              /\ ret'[1].needsUpdate =
                    (\/ excludedBySearch(v) \/ excludedByType(v) \/ excludedByPatient(v)
                     \/ excludedByQuality(v) \/ excludedByConsequence(v))]_vars

\* C3: right after ensureVariantVisible(record) returns, for a record of the
\* collection, the record is in the output of applyFilters().
C3_EnsuredRecordIsVisible ==
    ret # NoRet => ret[1].v \in Range(filteredVariants)

\* The reconciler has just reset the search and a facet for its record.
C3_Witness ==
    /\ ret # NoRet
    /\ ret[1].needsUpdate
    /\ ret[1].v = V2
    /\ Len(variants) = 2
    /\ searchTerm = sEmpty
    /\ filterQuality = sAll
    /\ filterPatient = sP1

\* The sum of a facet's per-value counts, every key but "All": the number
\* of pairs <<key, n>> with n up to the key's count.
PerValueSum(counts) ==
    Cardinality(UNION {{<<k, n>> : n \in 1..counts[k]} : k \in DOMAIN counts \ {sAll}})

\* The base set of a dimension: applyFilters with that dimension at "All".
BaseOfType == applyFilters([NoOverrides EXCEPT !.type = sAll])
BaseOfQuality == applyFilters([NoOverrides EXCEPT !.quality = sAll])
BaseOfPatient == applyFilters([NoOverrides EXCEPT !.patient = sAll])
BaseOfConsequence == applyFilters([NoOverrides EXCEPT !.consequence = sAll])

RECURSIVE InvolvedTotal(_)
InvolvedTotal(list) ==
    IF list = << >> THEN 0
    ELSE Cardinality(getInvolvedPatients(Head(list))) + InvolvedTotal(Tail(list))

\* C4 as stated: for each of the four dimensions, the per-value counts sum
\* to the number of records of the dimension's base set.
C4_CountsSumToBase ==
    /\ PerValueSum(typeCounts) = Len(BaseOfType)
    /\ PerValueSum(qualityCounts) = Len(BaseOfQuality)
    /\ PerValueSum(patientCounts) = Len(BaseOfPatient)
    /\ PerValueSum(consequenceCounts) = Len(BaseOfConsequence)

\* C4 as amended: the type counts and the quality counts (with the "N/A"
\* bucket) sum to the size of the base set; the patient counts sum to the
\* base records' involved patients, one per record and patient; the
\* consequence counts sum to the base records that have a consequence.
C4_CountsSumPerDimension ==
    LET patients == PerValueSum(patientCounts)
        consequences == PerValueSum(consequenceCounts)
        baseOfPatient == BaseOfPatient
        baseOfConsequence == BaseOfConsequence
    IN  /\ PerValueSum(typeCounts) = Len(BaseOfType)
        /\ PerValueSum(qualityCounts) = Len(BaseOfQuality)
        /\ patients = InvolvedTotal(baseOfPatient)
        /\ patients >= Len(baseOfPatient)
        /\ consequences =
              Cardinality({i \in DOMAIN baseOfConsequence :
                              Truthy(baseOfConsequence[i].consequence)})
        /\ consequences <= Len(baseOfConsequence)

\* Two records of one quality pass; the patient counts exceed the base set and
\* the consequence counts fall short of it.
C4_Witness ==
    /\ Len(BaseOfType) = 2
    /\ sLOW \in DOMAIN qualityCounts
    /\ qualityCounts[sLOW] = 2
    /\ filterQuality = sLOW
    /\ PerValueSum(patientCounts) > Len(BaseOfPatient)
    /\ PerValueSum(consequenceCounts) < Len(BaseOfConsequence)

\* C5: the cache only accumulates: an entry present for a key is present for
\* it in every later state.
C5_EntriesAreNeverRemoved ==
    [][\A k \in Entries : k \in DOMAIN hgvsStates']_vars

\* C6: a filter coordinate changes only in a setter step or in
\* ensureVariantVisible.
C6_FiltersChangeOnlyBySetters ==
    [][filters' # filters =>
          \/ updateSearchTerm(searchTerm')
          \/ setFilter(filterType')
          \/ setPatientFilter(filterPatient')
          \/ setQualityFilter(filterQuality')
          \/ setConsequenceFilter(filterConsequence')
          \/ \E v \in Range(variants) : ensureVariantVisible(v)]_vars

\* Records to compare keys on: the universe, and records with a blank name.
KeyProbes ==
    VariantUniverse \cup
    {Variant(30, sA, sC, sSNV, sP1, sPASS, undefined, hgvsStr(sBlank), << >>),
     Variant(31, sA, sC, sSNV, sP1, sPASS, undefined, hgvsStr(sBlank), << >>),
     Variant(32, sA, sC, sSNV, sP1, sPASS, undefined, hgvsArr(<<sBlank>>), << >>)}

\* C7 as stated: two records whose resolved sequences have the same first
\* entry have the same cache key.
C7_SameResolvedPrimarySameKey ==
    \A a, b \in KeyProbes :
        (getHgvs(a) # << >> /\ getHgvs(b) # << >> /\ getHgvs(a)[1] = getHgvs(b)[1])
            => getHgvsKey(a) = getHgvsKey(b)

\* C7 as amended: two records whose raw hgvs fields give the same non-blank
\* first entry have the same cache key, in every cache state; the resolved
\* sequence decides only while no cached alternatives replace the raw one.
C7_SameRawPrimarySameKey ==
    \A a, b \in KeyProbes :
        LET resolvedA == getHgvs(a)
            resolvedB == getHgvs(b)
        IN  (/\ resolvedA = rawHgvs(a) /\ resolvedB = rawHgvs(b)
             /\ resolvedA # << >> /\ resolvedB # << >>
             /\ resolvedA[1] = resolvedB[1]
             /\ trim(resolvedA[1]) # sEmpty)
                => getHgvsKey(a) = getHgvsKey(b)

\* The string-named and the array-named record read one entry, an error
\* entry, and both resolve to their raw names.
C7_Witness ==
    /\ getHgvsKey(V1) \in Entries
    /\ hgvsStates[getHgvsKey(V1)].error
    /\ getHgvsState(V3) = getHgvsState(V1)
    /\ getHgvs(V1)[1] = getHgvs(V3)[1]

IsPending(states, k) ==
    /\ k \in DOMAIN states
    /\ states[k].loading /\ ~states[k].error /\ states[k].alternatives = << >>

\* C8 as stated: from the step in which fetchHgvsAlternatives passes its
\* guards until its lookup completes, the entry of its key is pending.
C8_PendingWhileLookupInFlight ==
    \A r \in Calls : r.phase = "lookup" => IsPending(hgvsStates, r.key)

\* C8 as amended: the step that issues a lookup leaves the entry of its key
\* pending, and a pending entry stays so until the next write to its key:
\* the completion of any call for that key, or a run of the seeding effect.
C8_PendingUntilNextWrite ==
    [][/\ \A r \in BagToSet(inflight') :
             (r.phase = "lookup" /\ CopiesIn(r, inflight') > CopiesIn(r, inflight))
                 => IsPending(hgvsStates', r.key)
       /\ \A k \in Entries :
             (IsPending(hgvsStates, k) /\ ~IsPending(hgvsStates', k))
                 => \/ EffectRan
                    \/ \E r \in Calls :
                          /\ r.key = k
                          /\ \/ LookupReject(r)
                             \/ PersistReject(r)
                             \/ \E alternatives \in LookupResults :
                                   LookupResolve(r, alternatives)]_vars

\* Two lookups for one key are in flight and its entry is pending.
C8_Witness ==
    \E r \in Calls :
        r.phase = "lookup" /\ CopiesIn(r, inflight) = 2 /\ IsPending(hgvsStates, r.key)

\* C11: fetchHgvsAlternatives on a record whose resolved sequence has more
\* than one entry issues no lookup and changes no cache entry.
C11_NoFetchWithAlternatives ==
    [][\A v \in Range(variants) :
          (Len(getHgvs(v)) > 1 /\ fetchHgvsAlternatives(v))
              => UNCHANGED <<hgvsStates, inflight>>]_vars

\* A lookup has given the string-named record two alternatives (none was
\* seeded), and the record is still in the collection to be fetched again.
C11_Witness ==
    /\ V1 \in Range(variants)
    /\ hgvsAlternatives = NoAlternatives
    /\ Len(getHgvs(V1)) > 1
    /\ inflight = EmptyBag

\* C12 as stated: a transition of the cache, the collection unchanged,
\* changes no filter coordinate and leaves the output of applyFilters as it
\* was.
C12_CacheLeavesFilterOutput ==
    [][(hgvsStates' # hgvsStates /\ variants' = variants)
          => (filters' = filters /\ filteredVariants' = filteredVariants)]_vars

\* C12 as amended: the start of a fetch and the completions of its calls
\* (the inputs unchanged) change no filter coordinate; they change the output
\* of applyFilters only through the search stage: under a blank search the
\* output is as it was, and under any search a record whose resolved
\* sequence is as it was is in the output exactly if it was before.
C12_CacheReachesOutputBySearchOnly ==
    [][(inputs' = inputs /\ (hgvsStates' # hgvsStates \/ inflight' # inflight))
          => /\ filters' = filters
             /\ IF trim(toLowerCase(searchTerm)) = sEmpty
                THEN filteredVariants' = filteredVariants
                ELSE \A before \in {Range(filteredVariants)} :
                     \A after \in {Range(filteredVariants')} :
                     \A v \in (before \ after) \cup (after \ before) :
                        getHgvs(v)' # getHgvs(v)]_vars

\* A lookup has just answered, and under the typed search the record is in
\* the output by its cached name alone: nothing was seeded and its raw name
\* does not hold the query.
C12_Witness ==
    /\ searchTerm = sQnp
    /\ hgvsAlternatives = NoAlternatives
    /\ toast = <<Toast("Alternatives received", "success")>>
    /\ V1 \in Range(filteredVariants)
    /\ ~includes(toLowerCase(rawHgvs(V1)[1]), trim(toLowerCase(searchTerm)))

\* Every facet at "All": what is left of applyFilters is its search stage.
AllFacets == [type |-> sAll, patient |-> sAll, quality |-> sAll, consequence |-> sAll]

\* C17: a record whose raw hgvs field is empty, and whose cache entry under
\* its key has alternatives of which the first contains the trimmed,
\* lower-cased query, passes the search stage of applyFilters.
C17_SearchMatchesCachedName ==
    \A v \in Range(variants) :
        LET search == trim(toLowerCase(searchTerm))
            key == getHgvsKey(v)
        IN  (/\ search # sEmpty
             /\ rawHgvs(v) = << >>
             /\ key \in Entries
             /\ hgvsStates[key].alternatives # << >>
             /\ includes(toLowerCase(hgvsStates[key].alternatives[1]), search))
                => v \in Range(applyFilters(AllFacets))

\* The record without a name is found by the name cached under its position,
\* which is all of it that holds the query.
C17_Witness ==
    /\ searchTerm = sQnp
    /\ V2 \in Range(applyFilters(AllFacets))
    /\ rawHgvs(V2) = << >>
    /\ getHgvsKey(V2) = toString(V2.position)
    /\ getHgvs(V2) = <<sNPp1>>

\* The five stage predicates as the filter engine is described: each
\* dimension passes a record when it is at "All" (the search: when it is
\* blank) or the record has the selected value.
PassesQuality(v) ==
    filterQuality = sAll \/ ~Truthy(v.filter) \/ v.filter = filterQuality

PassesType(v) ==
    toLowerCase(filterType) = toLowerCase(sAll)
        \/ toLowerCase(v.type) = toLowerCase(filterType)

PassesPatient(v) == filterPatient = sAll \/ filterPatient \in getInvolvedPatients(v)

PassesConsequence(v) == filterConsequence = sAll \/ v.consequence = filterConsequence

PassesSearch(v) ==
    LET search == trim(toLowerCase(searchTerm))
    IN  search = sEmpty \/ matchesSearch(v, search)

PassesAll(v) ==
    /\ PassesQuality(v) /\ PassesType(v) /\ PassesPatient(v)
    /\ PassesConsequence(v) /\ PassesSearch(v)

\* C13: applyFilters returns exactly the records that satisfy all five stage
\* predicates, in their original order; with the four facets at "All" and a
\* blank search it returns the whole collection.
C13_OutputIsTheStableSelection ==
    /\ filteredVariants = SelectSeq(variants, PassesAll)
    /\ (/\ filterType = sAll /\ filterPatient = sAll /\ filterQuality = sAll
        /\ filterConsequence = sAll /\ trim(toLowerCase(searchTerm)) = sEmpty)
           => filteredVariants = variants

\* The type filter spelled in upper case lets the lower-case record through
\* beside the upper-case one, in the order of the collection, under a
\* whitespace-only search.
C13_Witness ==
    /\ variants = <<V1, V3>>
    /\ filterType = sSNV
    /\ filterQuality = sPASS
    /\ filterConsequence = sMis
    /\ searchTerm = sBlank
    /\ filteredVariants = <<V1, V3>>

\* C14: a record without a quality flag is in the output of applyFilters
\* under a quality selection exactly if it is with the quality at "All", and
\* ensureVariantVisible on such a record leaves the quality filter as it is.
C14_AbsentQualityAlwaysPasses ==
    /\ [](\A v \in Range(variants) :
             ~Truthy(v.filter) =>
                 (v \in Range(filteredVariants)
                     <=> v \in Range(applyFilters([NoOverrides EXCEPT !.quality = sAll]))))
    /\ [][(ret' # NoRet /\ ~Truthy(ret'[1].v.filter))
             => filterQuality' = filterQuality]_vars

\* The reconciler has run on the record without a flag under the LOW
\* selection, which stands, and the record is displayed.
C14_Witness ==
    /\ ret # NoRet
    /\ ret[1].v = V3
    /\ filterQuality = sLOW
    /\ V3 \in Range(filteredVariants)

\* The records (by index) that pass every stage but one facet's own.
PassingButType ==
    {i \in DOMAIN variants :
        LET v == variants[i]
        IN  PassesQuality(v) /\ PassesPatient(v) /\ PassesConsequence(v) /\ PassesSearch(v)}

PassingButQuality ==
    {i \in DOMAIN variants :
        LET v == variants[i]
        IN  PassesType(v) /\ PassesPatient(v) /\ PassesConsequence(v) /\ PassesSearch(v)}

PassingButPatient ==
    {i \in DOMAIN variants :
        LET v == variants[i]
        IN  PassesQuality(v) /\ PassesType(v) /\ PassesConsequence(v) /\ PassesSearch(v)}

PassingButConsequence ==
    {i \in DOMAIN variants :
        LET v == variants[i]
        IN  PassesQuality(v) /\ PassesType(v) /\ PassesPatient(v) /\ PassesSearch(v)}

\* The count mapping of a facet: for each value some record of idx has, the
\* number of records of idx that have it, and under "All" the size of idx.
Tally(idx, ValuesOf(_)) ==
    LET values == UNION {ValuesOf(variants[i]) : i \in idx}
    IN  [k \in values \cup {sAll} |->
            IF k = sAll THEN Cardinality(idx)
            ELSE Cardinality({i \in idx : k \in ValuesOf(variants[i])})]

TypeOf(v) == {v.type}

QualityOf(v) == {IF Truthy(v.filter) THEN v.filter ELSE sNA}

ConsequenceOf(v) == IF Truthy(v.consequence) THEN {v.consequence} ELSE {}

\* C15: the count mapping of each facet is a function of the records, the
\* search and the other three selections alone, so no change of the facet's
\* own selection changes it; its "All" entry is the number of records that
\* pass the other three facet filters and the search.
C15_CountsIgnoreOwnSelection ==
    /\ typeCounts = Tally(PassingButType, TypeOf)
    /\ qualityCounts = Tally(PassingButQuality, QualityOf)
    /\ patientCounts = Tally(PassingButPatient, getInvolvedPatients)
    /\ consequenceCounts = Tally(PassingButConsequence, ConsequenceOf)

\* The Indel type is selected and hides the collection's one record, an SNV,
\* which the type counts still count.
C15_Witness ==
    /\ filterType = sIndel
    /\ filteredVariants = << >>
    /\ sSNV \in DOMAIN typeCounts
    /\ typeCounts[sSNV] = 1
    /\ typeCounts[sAll] = 1
    /\ sIndel \notin DOMAIN typeCounts

\* The keys the records of the universe have.
CacheKeys == {getHgvsKey(v) : v \in VariantUniverse}

\* C16: with every issued lookup returning or failing, a key whose entry is
\* loading comes to have an entry that is not loading (a success or an error
\* entry).
C16_LoadingEnds ==
    \A k \in CacheKeys :
        (k \in Entries /\ hgvsStates[k].loading)
            ~> (k \in Entries /\ ~hgvsStates[k].loading)

\* A lookup has failed and left its key's error entry; nothing is in flight.
C16_Witness ==
    /\ inflight = EmptyBag
    /\ hgvsAlternatives = NoAlternatives
    /\ \E k \in Entries : hgvsStates[k].error

\* The (job, position) pairs a mark can be on.
MarkPairs ==
    {sJob, sJob2} \X {v.position : v \in VariantUniverse}

\* C18: a report-mark toggle flips the mark of its (job, position) and
\* changes the membership of no other pair; a second toggle of the same pair
\* restores the marks, and so the original isMarked value.
C18_ToggleIsAnInvolution ==
    [][\A v \in Range(variants) :
          (Truthy(jobId) /\ toggleReport(v)) =>
              /\ isMarkedForReport(v)' = ~isMarkedForReport(v)
              /\ \A p \in MarkPairs \ {<<jobId, v.position>>} :
                    (p \in marks') = (p \in marks)
              /\ toggleMark(marks', jobId, v.position) = marks
              /\ isMarked(toggleMark(marks', jobId, v.position), jobId, v.position)
                    = isMarked(marks, jobId, v.position)]_vars

\* A mark has just been taken back under one job, while the same position
\* stays marked under the other job and another position under this one.
C18_Witness ==
    /\ jobId = sJob
    /\ toast = <<Toast("Removed from report", "success")>>
    /\ marks = {<<sJob2, V1.position>>, <<sJob, V4.position>>}

\* C19: toggleReport without a job identifier changes no mark and no other
\* state and shows an error notice; without a job identifier
\* isMarkedForReport is false of every record.
C19_NoJobNoToggle ==
    /\ [](~Truthy(jobId) => \A v \in Range(variants) : ~isMarkedForReport(v))
    /\ [][\A v \in Range(variants) :
             (~Truthy(jobId) /\ toggleReport(v)) =>
                 /\ UNCHANGED <<inputs, filters, hgvsStates, inflight, marks>>
                 /\ Len(toast') = 1
                 /\ toast'[1].kind = "error"]_vars

\* The notice has just been shown: no job is set, and the marks made under
\* an earlier job are all there, on a record of the collection too.
C19_Witness ==
    /\ ~Truthy(jobId)
    /\ toast = <<Toast("Job ID not found", "error")>>
    /\ \E v \in Range(variants) : <<sJob, v.position>> \in marks

\* C20: fetchHgvsAlternatives on a record whose resolved sequence is empty,
\* or whose primary name has no colon, issues no lookup, creates and changes
\* no cache entry, persists nothing and shows no notification.
C20_NothingToLookUpIsSilent ==
    [][\A v \in Range(variants) :
          (/\ \/ Len(getHgvs(v)) = 0
              \/ splitCount(getHgvs(v)[1]) < 2
           /\ fetchHgvsAlternatives(v))
              => /\ UNCHANGED <<hgvsStates, inflight>>
                 /\ toast' = << >>]_vars

\* The collection holds the record without a name and the record whose name
\* has no colon; a lookup issued before the refresh has answered and is
\* being persisted; the step after it showed nothing and left its entry.
C20_Witness ==
    /\ variants = <<V2, V5>>
    /\ Len(getHgvs(V2)) = 0
    /\ Len(getHgvs(V5)) = 1
    /\ splitCount(getHgvs(V5)[1]) < 2
    /\ toast = << >>
    /\ Entries = {sNMc1}
    /\ hgvsAlternatives = NoAlternatives
    /\ \E r \in Calls : r.phase = "persist" /\ CopiesIn(r, inflight) = 1
    /\ BagCardinality(inflight) = 1

\* C21: whenever fetchHgvsAlternatives persists a lookup result, the key it
\* passes to addJobHgvsAlternatives (the call's primary) is the record's
\* cache key, so that a cache seeded from what was persisted has the
\* alternatives under the key getHgvs reads.
C21_PersistedUnderCacheKey ==
    \A r \in Calls :
        r.phase = "persist" =>
            /\ r.primary = r.key
            /\ r.alternatives # << >> =>
                  LET reseeded == SeededStates([k \in {r.primary} |-> r.alternatives])
                  IN  r.key \in DOMAIN reseeded /\ reseeded[r.key].alternatives = r.alternatives

\* C22: once the cache entry of a key holds a successful result with more
\* than one alternative, no completion of a fetch for that key (a lookup or
\* a persist that resolves or rejects, of any call in flight) replaces it:
\* after the completion the entry still holds more than one alternative and
\* no error.
C22_SuccessIsStable ==
    [][\A k \in Entries :
         ( /\ Len(hgvsStates[k].alternatives) > 1
           /\ ~hgvsStates[k].error
           /\ \E r \in Calls :
                /\ r.key = k
                /\ \/ LookupReject(r)
                   \/ PersistReject(r)
                   \/ PersistResolve(r)
                   \/ \E alternatives \in LookupResults : LookupResolve(r, alternatives) )
         => /\ k \in DOMAIN hgvsStates'
            /\ Len(hgvsStates'[k].alternatives) > 1
            /\ ~hgvsStates'[k].error]_vars

\* The records of the type facet's base set (every filter but the type's).
TypeBase == applyFilters([NoOverrides EXCEPT !.type = sAll])

\* The records of the quality facet's base set.
QualityBase == applyFilters([NoOverrides EXCEPT !.quality = sAll])

\* The filtered view with the value X chosen for the type, respectively the
\* quality, and the other selections and the search as they are.
ViewWithType(X) == applyFilters([NoOverrides EXCEPT !.type = X])

ViewWithQuality(X) == applyFilters([NoOverrides EXCEPT !.quality = X])

\* How many records of a sequence satisfy a condition.
HowMany(list, Cond(_)) == Cardinality({i \in DOMAIN list : Cond(list[i])})

\* C23 as stated: for the type and quality facets, the count of a concrete
\* value X is the number of records of the view obtained by selecting X in
\* that facet.
C23_CountIsViewSize ==
    /\ \A X \in DOMAIN typeCounts \ {sAll} :
           typeCounts[X] = Len(ViewWithType(X))
    /\ \A X \in DOMAIN qualityCounts \ {sAll} :
           qualityCounts[X] = Len(ViewWithQuality(X))

\* C23: the count of a type X is the number of base-set records whose type
\* is X as written, while the view obtained by selecting X holds the base-set
\* records whose type is X up to letter case; the count of a quality flag X
\* is the number of base-set records whose flag is X, while the view obtained
\* by selecting X holds these and the base-set records without a flag.
C23_CountIsExactValueTally ==
    /\ \A X \in {TypeBase[i].type : i \in DOMAIN TypeBase} :
           LET Exactly(v) == v.type = X
               UpToCase(v) == toLowerCase(v.type) = toLowerCase(X)
           IN  toLowerCase(X) # sall =>
                 /\ X \in DOMAIN typeCounts
                 /\ typeCounts[X] = HowMany(TypeBase, Exactly)
                 /\ Len(ViewWithType(X)) = HowMany(TypeBase, UpToCase)
    /\ \A X \in {QualityBase[i].filter : i \in DOMAIN QualityBase} :
           LET Exactly(v) == v.filter = X
               NoFlag(v) == ~Truthy(v.filter)
           IN  (Truthy(X) /\ X # sAll /\ X # sNA) =>
                 /\ X \in DOMAIN qualityCounts
                 /\ qualityCounts[X] = HowMany(QualityBase, Exactly)
                 /\ Len(ViewWithQuality(X)) =
                        qualityCounts[X] + HowMany(QualityBase, NoFlag)

\* Two records that differ in the case of their type, one of them without a
\* quality flag, with SNV and PASS selected: the view shows both records,
\* while SNV is counted once and PASS is counted once.
C23_Witness ==
    /\ variants = <<V1, V3>>
    /\ filterType = sSNV /\ filterQuality = sPASS
    /\ filteredVariants = <<V1, V3>>
    /\ typeCounts = (sSNV :> 1) @@ (ssnv :> 1) @@ (sAll :> 2)
    /\ ViewWithType(sSNV) = filteredVariants
    /\ qualityCounts = (sPASS :> 1) @@ (sNA :> 1) @@ (sAll :> 2)
    /\ ViewWithQuality(sPASS) = filteredVariants

=============================================================================
